---- MODULE Spec2Model ----
(***************************************************************************)
(* Model of the Remix-side MCP client of Shopify-MCP-Project:              *)
(*   - the connection manager  (remix-mcp-client/app/lib/mcp-client.server.ts)  *)
(*   - the agentic loop sendMessageToGemini (lib/gemini-client.server.ts)  *)
(* and of the Rails-side SSE endpoint                                      *)
(*   - Mcp::StreamsController (rails-mcp-server/.../streams_controller.rb) *)
(* Every exported async function is split at its awaits: the code between  *)
(* two awaits runs to completion on the Node.js event loop and is one      *)
(* action; what happens between two such pieces is interleaved freely.     *)
(***************************************************************************)
EXTENDS Integers, Sequences, FiniteSets, TLC

\* ------------------------------------------------------------------ bounds
\* Client objects / connection attempts the process may create in one behaviour.
MaxAttempts == 2
\* The same where failed attempts are retried around overlapping closes.
MaxRetryAttempts == 3
\* Concurrent callers of the manager's exported functions (besides a run).
MaxCallers == 2
\* Transport failures (connect, listTools, callTool on an open connection)
\* the environment injects in one behaviour.
MaxFaults == 1
\* Largest ceiling (maxToolCalls) a run is started with.
MaxCeiling == 3
\* Largest number of function calls the model requests in one turn.
MaxCalls == 2
\* Largest number of function calls the model requests in one run.
MaxDispatched == 4

\* `null` of mcp-client.server.ts:30-31 (no client, no promise).
null == 0

Attempts == 1..MaxRetryAttempts
\* Invocation slots: the callers' ones, or a run's tool calls (1..MaxCalls)
\* and the signal handler next to it.
SignalProc == MaxCalls + 1
Procs == 1..(IF MaxCallers > SignalProc THEN MaxCallers ELSE SignalProc)
Callers == 1..MaxCallers

VARIABLES
  \* ---- mcp-client.server.ts module state
  mcpClient,          \* line 30: null or the id of the Client object
  connectionPromise,  \* line 31: null or the id of the initializeMcpClient() promise
  apiKey,             \* process.env.MCP_API_KEY is set (line 68)
  attempt,            \* per attempt: where initializeMcpClient() is / how its promise settled
  conn,               \* per Client object: state of its SSE connection
  closeCount,         \* per Client object: how often client.close() was invoked
  faults,             \* transport failures injected so far
  \* ---- one entry per asynchronous invocation of an exported function
  op,                 \* which function the invocation runs
  pc,                 \* where it is suspended
  first,              \* it is the caller that created the promise (suspended at line 144)
  target,             \* the promise it awaits / the client it holds
  pres,               \* its settled result
  \* ---- one run of sendMessageToGemini
  messages,           \* request.messages, as the sequence of roles
  maxToolCalls,       \* request.maxToolCalls
  rpc,                \* position of the run
  iterations,         \* line 1215
  roundTrips,         \* number of chat.sendMessage calls issued
  currentMessage,     \* line 1286 / 1410
  lastSent,           \* the argument of the latest chat.sendMessage call
  functionCalls,      \* line 1321: the calls the model requested in this turn
  functionResponses,  \* the slots Promise.all fills, by request index
  toolCallRecords,    \* line 1208
  dispatched,         \* number of callMcpTool invocations the run has made
  modelLog,           \* what the model answered to each chat.sendMessage call
  finalText,          \* the text of the model's answer without function call
  response,           \* what the run returned or raised
  \* ---- one request to GET /mcp/sse (streams_controller.rb)
  header,             \* request.headers['X-MCP-Api-Key'] (line 120)
  expectedKey,        \* ENV['MCP_API_KEY'] (line 121)
  sess,               \* where the request's thread is
  status,             \* HTTP status of the response
  events,             \* the events written to response.stream, in order
  streamClosed,       \* response.stream.closed?
  closeCalls,         \* how often response.stream.close was invoked
  clientGone,         \* the client has disconnected
  expired,            \* the handler's timeout has expired
  submitted,          \* requests the client has submitted on the session
  cur,                \* the tool call being executed
  returns,            \* what the callbacks returned to the handler
  exitPath,           \* how the stream action ended
  \* ---- two concurrent invocations of sendMessageToGemini
  runs,               \* per invocation: its locals and its result
  toolVersion,        \* the tool list the server currently offers
  \* ---- requests to Mcp::ToolsController (tools_controller.rb)
  railsEnv,           \* Rails.env
  toolResponses,      \* the answers given so far
  \* ---- exploration limit
  attemptLimit,       \* connection attempts a behaviour may start
  \* ---- POST /api/chat (_index.tsx) and Tools::RefundOrder (refund_order.rb)
  chatLog,            \* requests the action has answered, with the answers
  refundLog           \* calls of RefundOrder#call, with their outcomes

mgrVars == <<mcpClient, connectionPromise, apiKey, attempt, conn, closeCount, faults>>
procVars == <<op, pc, first, target, pres>>
runVars == <<messages, maxToolCalls, rpc, iterations, roundTrips, currentMessage,
             lastSent, functionCalls, functionResponses, toolCallRecords,
             dispatched, modelLog, finalText, response>>
sseVars == <<header, expectedKey, sess, status, events, streamClosed, closeCalls,
             clientGone, expired, submitted, cur, returns, exitPath>>
twoVars == <<runs, toolVersion>>
appVars == <<chatLog, refundLog>>
limVars == <<attemptLimit>>
httpVars == <<railsEnv, toolResponses>>
vars == <<mgrVars, procVars, runVars, sseVars, twoVars, appVars, limVars, httpVars>>

\* ---------------------------------------------------------------- results
NoResult == [kind |-> "none", id |-> null, isError |-> FALSE, text |-> ""]
ClientResult(p) == [kind |-> "client", id |-> p, isError |-> FALSE, text |-> ""]
ToolsResult == [kind |-> "tools", id |-> null, isError |-> FALSE, text |-> ""]
VoidResult == [kind |-> "void", id |-> null, isError |-> FALSE, text |-> ""]
\* McpToolResult (lines 44-51): content[0].text and isError.
ToolOk == [kind |-> "result", id |-> null, isError |-> FALSE, text |-> "payload"]
ToolFailed == [kind |-> "result", id |-> null, isError |-> TRUE,
               text |-> "Tool execution failed"]
Raised(msg) == [kind |-> "raised", id |-> null, isError |-> TRUE, text |-> msg]

\* ------------------------------------------------------ connection manager
\* The manager's and the invocations' state as one value, so that several
\* synchronous calls made in one event-loop turn can be composed.
CurM == [mcpClient |-> mcpClient, connectionPromise |-> connectionPromise,
         attempt |-> attempt, conn |-> conn, closeCount |-> closeCount,
         op |-> op, pc |-> pc, first |-> first, target |-> target, pres |-> pres]

SetM(m) ==
  /\ mcpClient' = m.mcpClient
  /\ connectionPromise' = m.connectionPromise
  /\ attempt' = m.attempt
  /\ conn' = m.conn
  /\ closeCount' = m.closeCount
  /\ op' = m.op
  /\ pc' = m.pc
  /\ first' = m.first
  /\ target' = m.target
  /\ pres' = m.pres

FreshAttempt(att) ==
  CHOOSE p \in Attempts :
    att[p] = "unused" /\ \A q \in Attempts : q < p => att[q] # "unused"

CanStart(att) == \E p \in 1..attemptLimit : att[p] = "unused"

\* initializeMcpClient up to its first await (lines 66-108): without an API key
\* the promise is rejected at once, otherwise client.connect() is pending.
initializeMcpClient(att, key) ==
  [att EXCEPT ![FreshAttempt(att)] = IF key THEN "connecting" ELSE "rejected"]

\* getMcpClient without the in-flight check of lines 136-138.
getMcpClientNoInFlightCheck(m, key) ==
  IF m.mcpClient # null
  THEN [m |-> m, kind |-> "client", id |-> m.mcpClient, first |-> FALSE]
  ELSE LET p == FreshAttempt(m.attempt)
       IN [m |-> [m EXCEPT !.connectionPromise = p,
                           !.attempt = initializeMcpClient(m.attempt, key)],
           kind |-> "promise", id |-> p, first |-> TRUE]

\* getMcpClient up to its return or first await (lines 129-144).
\* What the caller gets: a client ("client") or a promise to wait on ("promise").
getMcpClient(m, key) ==
  IF m.mcpClient # null
  THEN [m |-> m, kind |-> "client", id |-> m.mcpClient, first |-> FALSE]
  ELSE IF m.connectionPromise # null
  THEN [m |-> m, kind |-> "promise", id |-> m.connectionPromise, first |-> FALSE]
  ELSE LET p == FreshAttempt(m.attempt)
       IN [m |-> [m EXCEPT !.connectionPromise = p,
                           !.attempt = initializeMcpClient(m.attempt, key)],
           kind |-> "promise", id |-> p, first |-> TRUE]

\* An invocation needs a fresh attempt id only on the lazy-connect path.
NeedsAttempt(m, o) ==
  o # "close" /\ m.mcpClient = null /\ m.connectionPromise = null

\* closeMcpClient up to its await (lines 214-217).
closeMcpClientBegin(m, c) ==
  IF m.mcpClient # null
  THEN LET p == m.mcpClient
       IN [m EXCEPT !.closeCount[p] = @ + 1,
                    !.conn[p] = "closed",
                    !.op[c] = "close", !.pc[c] = "closing", !.target[c] = p]
  ELSE [m EXCEPT !.op[c] = "close", !.pc[c] = "ret", !.pres[c] = VoidResult]

\* The synchronous start of one exported function on invocation c:
\*   "get"  getMcpClient   (129-151)     "list" listMcpTools (159-163)
\*   "call" callMcpTool    (175-206)     "close" closeMcpClient (214-221)
Invoke(m, c, o, key) ==
  IF o = "close" THEN closeMcpClientBegin(m, c)
  ELSE LET g == getMcpClient(m, key)
       IN IF g.kind = "promise"
          THEN [g.m EXCEPT !.op[c] = o, !.pc[c] = "wait",
                           !.target[c] = g.id, !.first[c] = g.first]
          ELSE IF o = "get"
          THEN [g.m EXCEPT !.op[c] = o, !.pc[c] = "ret",
                           !.pres[c] = ClientResult(g.id)]
          ELSE [g.m EXCEPT !.op[c] = o, !.pc[c] = "busy", !.target[c] = g.id]

ConnectError(key) ==
  IF key THEN "Failed to connect to MCP server"
  ELSE "MCP_API_KEY environment variable is required"

\* The caller of the exported function takes the settled result; the
\* invocation slot is free again.
Release(m, c) ==
  [m EXCEPT !.op[c] = "none", !.pc[c] = "idle", !.first[c] = FALSE,
            !.target[c] = null, !.pres[c] = NoResult]

Settle(m, c, kind, r) ==
  [m EXCEPT !.pc[c] = kind, !.first[c] = FALSE, !.target[c] = null, !.pres[c] = r]

\* The caller that created promise p has not yet run its continuation
\* (line 144/146). Its reaction is registered first, so it runs before the
\* callers that were handed the same promise (line 137) continue.
FirstPending(m, p) ==
  \E d \in Procs : m.pc[d] = "wait" /\ m.first[d] /\ m.target[d] = p

\* getMcpClient after `await connectionPromise` (lines 144-150) for the caller
\* that created the promise; for every other caller the adopted promise of line
\* 137 settles. listMcpTools / callMcpTool then go on to use the client
\* (lines 161, 184); a rejection propagates out of them: `await getMcpClient()`
\* is outside callMcpTool's try block (line 179).
AfterConnect(m, c, key) ==
  LET p == m.target[c]
      ok == m.attempt[p] = "resolved"
      m1 == IF ~m.first[c] THEN m
            ELSE IF ok THEN [m EXCEPT !.mcpClient = p]
            ELSE [m EXCEPT !.connectionPromise = null]
  IN IF ~ok THEN Settle(m1, c, "exc", Raised(ConnectError(key)))
     ELSE IF m.op[c] = "get" THEN Settle(m1, c, "ret", ClientResult(p))
     ELSE [m1 EXCEPT !.pc[c] = "busy", !.first[c] = FALSE]

\* callMcpTool without its try/catch: a rejected callTool propagates.
AfterRequestUncaught(m, c, ok) ==
  IF ok THEN Settle(m, c, "ret", IF m.op[c] = "list" THEN ToolsResult ELSE ToolOk)
  ELSE Settle(m, c, "exc", Raised(IF m.op[c] = "list" THEN "listTools failed"
                                  ELSE "callTool failed"))

\* client.listTools() / client.callTool() settles (lines 161-162, 184-205).
\* A rejected callTool is caught and returned in MCP format with isError.
AfterRequest(m, c, ok) ==
  IF m.op[c] = "list"
  THEN IF ok THEN Settle(m, c, "ret", ToolsResult)
       ELSE Settle(m, c, "exc", Raised("listTools failed"))
  ELSE IF ok THEN Settle(m, c, "ret", ToolOk)
       ELSE Settle(m, c, "ret", ToolFailed)

\* closeMcpClient after `await mcpClient.close()` (lines 218-219).
closeMcpClientEnd(m, c) ==
  Settle([m EXCEPT !.mcpClient = null, !.connectionPromise = null],
         c, "ret", VoidResult)

\* ---- actions of the connection manager
\* The environment injects a failure only while its budget lasts.
Fault(injected) ==
  /\ injected => faults < MaxFaults
  /\ faults' = IF injected THEN faults + 1 ELSE faults

\* An exported function is called (from a request handler or a signal handler).
Call(c, o) ==
  /\ pc[c] = "idle"
  /\ NeedsAttempt(CurM, o) => CanStart(attempt)
  /\ SetM(Invoke(CurM, c, o, apiKey))
  /\ UNCHANGED <<twoVars, appVars, limVars, httpVars, sseVars, apiKey, faults, runVars>>

\* initializeMcpClient: `await client.connect(transport)` settles (108-120).
InitConnectDone(p, ok) ==
  /\ attempt[p] = "connecting"
  /\ attempt' = [attempt EXCEPT ![p] = IF ok THEN "listing" ELSE "rejected"]
  /\ conn' = [conn EXCEPT ![p] = IF ok THEN "open" ELSE @]
  /\ Fault(~ok)
  /\ UNCHANGED <<twoVars, appVars, limVars, httpVars, sseVars, mcpClient, connectionPromise, apiKey, closeCount, procVars, runVars>>

\* initializeMcpClient: `await client.listTools()` settles (113-120). On failure
\* the catch block rethrows; the connected client is dropped without close().
InitListDone(p, ok) ==
  /\ attempt[p] = "listing"
  /\ attempt' = [attempt EXCEPT ![p] = IF ok THEN "resolved" ELSE "rejected"]
  /\ Fault(~ok)
  /\ UNCHANGED <<twoVars, appVars, limVars, httpVars, sseVars, mcpClient, connectionPromise, apiKey, conn, closeCount, procVars, runVars>>

ConnectSettled(c) ==
  /\ pc[c] = "wait"
  /\ attempt[target[c]] \in {"resolved", "rejected"}
  /\ first[c] \/ ~FirstPending(CurM, target[c])
  /\ SetM(AfterConnect(CurM, c, apiKey))
  /\ UNCHANGED <<twoVars, appVars, limVars, httpVars, sseVars, apiKey, faults, runVars>>

\* A request on a connection that is not open can only fail.
RequestSettled(c, ok) ==
  /\ pc[c] = "busy"
  /\ ok => conn[target[c]] = "open"
  /\ Fault(~ok /\ conn[target[c]] = "open")
  /\ SetM(AfterRequest(CurM, c, ok))
  /\ UNCHANGED <<twoVars, appVars, limVars, httpVars, sseVars, apiKey, runVars>>

CloseSettled(c) ==
  /\ pc[c] = "closing"
  /\ SetM(closeMcpClientEnd(CurM, c))
  /\ UNCHANGED <<twoVars, appVars, limVars, httpVars, sseVars, apiKey, faults, runVars>>

Collect(c) ==
  /\ pc[c] \in {"ret", "exc"}
  /\ SetM(Release(CurM, c))
  /\ UNCHANGED <<twoVars, appVars, limVars, httpVars, sseVars, apiKey, faults, runVars>>

\* -------------------------------------------------- sendMessageToGemini
\* ChatResponse (lines 1071-1080) without the token counters, or the exception
\* that left the function.
NoResponse == [kind |-> "none", message |-> "", toolCalls |-> <<>>, iterations |-> 0]
Returned(msg, recs, it) ==
  [kind |-> "returned", message |-> msg, toolCalls |-> recs, iterations |-> it]
Threw(msg) == [kind |-> "raised", message |-> msg, toolCalls |-> <<>>, iterations |-> 0]

ApologyMsg == "I apologize, but I was unable to generate a response."
DefaultMsg == "I have processed your request."
LimitMsg == "I've been working on your request but reached my limit for tool calls."
LastMessageError == "Last message must be from user"
ModelError == "chat.sendMessage rejected"

\* string | Part[] of line 1286.
TextMessage == [kind |-> "text", parts |-> <<>>]
PartsMessage(parts) == [kind |-> "parts", parts |-> parts]

\* content[0] of an McpToolResult: the payload of a completed call depends on
\* the call, the text of a failed one is the caught error.
Content(call, res) ==
  [type |-> "text", text |-> res.text, of |-> IF res.isError THEN 0 ELSE call.args]
NoPart == [name |-> "", response |-> [type |-> "", text |-> "", of |-> 0]]
\* lines 1394-1399
FunctionResponse(call, res) == [name |-> call.name, response |-> Content(call, res)]
\* lines 1384-1389 (input and durationMs left out)
ToolCallRecord(call, res) == [name |-> call.name, result |-> Content(call, res)]

\* The batches of function calls the model may request in one turn.
ToolAt(i) == IF i % 2 = 1 THEN "aggregate_customer_context" ELSE "refund_order"
Batch(k) == [i \in 1..k |-> [name |-> ToolAt(i), args |-> i]]

\* No check of the latest message.
LatestUnchecked(msgs) == TRUE
\* line 1259-1260
LatestFromUser(msgs) == Len(msgs) > 0 /\ msgs[Len(msgs)] = "user"
\* The loop's bound off by one.
LoopCondInclusive(it, max) == it <= max
\* A loop whose condition never ends it.
LoopCondUnbounded(it, max) == TRUE
\* line 1288
LoopCond(it, max) == it < max
\* The final text without the fallback of line 1337.
FinalMessageNoFallback(text) == text
\* line 1337
FinalMessage(text) == IF text = "" THEN DefaultMsg ELSE text
\* Results collected in the order in which the calls complete.
FirstFree(resps) ==
  CHOOSE j \in DOMAIN resps :
    resps[j] = [name |-> "", response |-> [type |-> "", text |-> "", of |-> 0]]
    /\ \A h \in DOMAIN resps :
         h < j => resps[h] # [name |-> "", response |-> [type |-> "", text |-> "", of |-> 0]]
PlaceInCompletionOrder(resps, i, part) == [resps EXCEPT ![FirstFree(resps)] = part]
\* The loop resumed as soon as one call has settled.
AnySettled(resps) ==
  \E i \in DOMAIN resps :
    resps[i] # [name |-> "", response |-> [type |-> "", text |-> "", of |-> 0]]
\* Promise.all (line 1365) stores each result at the index of its request ...
PlaceResponse(resps, i, part) == [resps EXCEPT ![i] = part]
\* ... and resolves when every one of them has settled.
AllSettled(resps) == \A i \in DOMAIN resps : resps[i] # NoPart

\* The safety limit surfaced as an exception instead of a response.
LoopHeadThrowsAtLimit(msg) ==
  IF LoopCond(iterations, maxToolCalls)
  THEN /\ iterations' = iterations + 1
       /\ roundTrips' = roundTrips + 1
       /\ lastSent' = msg
       /\ rpc' = "awaitModel"
       /\ response' = response
  ELSE /\ rpc' = "done"
       /\ response' = Threw(LimitMsg)
       /\ UNCHANGED <<iterations, roundTrips, lastSent>>

\* The while loop's head (1288-1293) and the code after the loop (1413-1433):
\* either the next round-trip is issued or the run returns the safety-limit
\* response.
LoopHead(msg) ==
  IF LoopCond(iterations, maxToolCalls)
  THEN /\ iterations' = iterations + 1
       /\ roundTrips' = roundTrips + 1
       /\ lastSent' = msg
       /\ rpc' = "awaitModel"
       /\ response' = response
  ELSE /\ rpc' = "done"
       /\ response' = Returned(LimitMsg, toolCallRecords, iterations)
       /\ UNCHANGED <<iterations, roundTrips, lastSent>>

\* sendMessageToGemini is called: it runs to `await listMcpTools()` (1196-1230).
StartRun ==
  /\ rpc = "idle"
  /\ pc[1] = "idle"
  /\ NeedsAttempt(CurM, "list") => CanStart(attempt)
  /\ SetM(Invoke(CurM, 1, "list", apiKey))
  /\ rpc' = "listing"
  /\ UNCHANGED <<twoVars, appVars, limVars, httpVars, sseVars, finalText, apiKey, faults, messages, maxToolCalls, iterations, roundTrips,
                 currentMessage, lastSent, functionCalls, functionResponses,
                 toolCallRecords, dispatched, modelLog, response>>

\* listMcpTools() rejected: the exception leaves sendMessageToGemini (line 1230).
ToolsUnavailable ==
  /\ rpc = "listing"
  /\ pc[1] = "exc"
  /\ response' = Threw(pres[1].text)
  /\ rpc' = "done"
  /\ SetM(Release(CurM, 1))
  /\ UNCHANGED <<twoVars, appVars, limVars, httpVars, sseVars, finalText, apiKey, faults, messages, maxToolCalls, iterations, roundTrips,
                 currentMessage, lastSent, functionCalls, functionResponses,
                 toolCallRecords, dispatched, modelLog>>

\* listMcpTools() resolved: lines 1231-1293, up to the first chat.sendMessage.
ToolsListed ==
  /\ rpc = "listing"
  /\ pc[1] = "ret"
  /\ SetM(Release(CurM, 1))
  /\ IF LatestFromUser(messages)
     THEN /\ currentMessage' = TextMessage
          /\ LoopHead(TextMessage)
     ELSE /\ response' = Threw(LastMessageError)
          /\ rpc' = "done"
          /\ UNCHANGED <<currentMessage, iterations, roundTrips, lastSent>>
  /\ UNCHANGED <<twoVars, appVars, limVars, httpVars, sseVars, finalText, apiKey, faults, messages, maxToolCalls, functionCalls,
                 functionResponses, toolCallRecords, dispatched, modelLog>>

\* chat.sendMessage rejects (line 1293): nothing catches it.
ModelRejects ==
  /\ rpc = "awaitModel"
  /\ modelLog' = Append(modelLog, "reject")
  /\ response' = Threw(ModelError)
  /\ rpc' = "done"
  /\ UNCHANGED <<twoVars, appVars, limVars, httpVars, sseVars, finalText, mgrVars, procVars, messages, maxToolCalls, iterations, roundTrips,
                 currentMessage, lastSent, functionCalls, functionResponses,
                 toolCallRecords, dispatched>>

\* The no-candidate return with a fresh, empty record list.
ModelNoCandidateDropsRecords ==
  /\ rpc = "awaitModel"
  /\ modelLog' = Append(modelLog, "nocandidate")
  /\ response' = Returned(ApologyMsg, <<>>, iterations)
  /\ rpc' = "done"
  /\ UNCHANGED <<twoVars, appVars, limVars, httpVars, sseVars, finalText, mgrVars, procVars, messages, maxToolCalls, iterations, roundTrips,
                 currentMessage, lastSent, functionCalls, functionResponses,
                 toolCallRecords, dispatched>>

\* The response has no candidate (lines 1305-1318).
ModelNoCandidate ==
  /\ rpc = "awaitModel"
  /\ modelLog' = Append(modelLog, "nocandidate")
  /\ response' = Returned(ApologyMsg, toolCallRecords, iterations)
  /\ rpc' = "done"
  /\ UNCHANGED <<twoVars, appVars, limVars, httpVars, sseVars, finalText, mgrVars, procVars, messages, maxToolCalls, iterations, roundTrips,
                 currentMessage, lastSent, functionCalls, functionResponses,
                 toolCallRecords, dispatched>>

\* The final answer returned with a fresh, empty record list.
ModelAnswersFreshRecords(text) ==
  /\ rpc = "awaitModel"
  /\ modelLog' = Append(modelLog, "final")
  /\ finalText' = text
  /\ response' = Returned(FinalMessage(text), <<>>, iterations)
  /\ rpc' = "done"
  /\ UNCHANGED <<twoVars, appVars, limVars, httpVars, sseVars, mgrVars, procVars, messages, maxToolCalls, iterations, roundTrips,
                 currentMessage, lastSent, functionCalls, functionResponses,
                 toolCallRecords, dispatched>>

\* The candidate holds no function call (lines 1330-1346).
ModelAnswers(text) ==
  /\ rpc = "awaitModel"
  /\ modelLog' = Append(modelLog, "final")
  /\ finalText' = text
  /\ response' = Returned(FinalMessage(text), toolCallRecords, iterations)
  /\ rpc' = "done"
  /\ UNCHANGED <<twoVars, appVars, limVars, httpVars, sseVars, mgrVars, procVars, messages, maxToolCalls, iterations, roundTrips,
                 currentMessage, lastSent, functionCalls, functionResponses,
                 toolCallRecords, dispatched>>

\* functionCalls.map(async ...) (line 1366): the callbacks run one after the
\* other, each up to the first await inside callMcpTool.
RECURSIVE Dispatch(_, _, _)
Dispatch(m, k, key) ==
  IF k = 0 THEN m ELSE Invoke(Dispatch(m, k - 1, key), k, "call", key)

\* The candidate holds k function calls (lines 1320-1379): all are dispatched.
ModelRequests(k) ==
  /\ rpc = "awaitModel"
  /\ dispatched + k <= MaxDispatched
  /\ \A i \in 1..k : pc[i] = "idle"
  /\ NeedsAttempt(CurM, "call") => CanStart(attempt)
  /\ modelLog' = Append(modelLog, "calls")
  /\ functionCalls' = Batch(k)
  /\ functionResponses' = [i \in 1..k |-> NoPart]
  /\ dispatched' = dispatched + k
  /\ SetM(Dispatch(CurM, k, apiKey))
  /\ rpc' = "awaitTools"
  /\ UNCHANGED <<twoVars, appVars, limVars, httpVars, sseVars, finalText, apiKey, faults, messages, maxToolCalls, iterations, roundTrips,
                 currentMessage, lastSent, toolCallRecords, response>>

\* The list holds the latest record only.
KeepLatestRecord(recs, rec) == <<rec>>
\* toolCallRecords.push({...}) (1383-1389).
PushRecord(recs, rec) == Append(recs, rec)

\* A callback of the map continues after `await callMcpTool(...)` (1381-1399).
\* After Promise.all has rejected, the callbacks still in flight go on.
ToolReturns(i) ==
  /\ rpc \in {"awaitTools", "done"}
  /\ i \in DOMAIN functionCalls
  /\ op[i] = "call" /\ pc[i] = "ret"
  /\ toolCallRecords' = PushRecord(toolCallRecords, ToolCallRecord(functionCalls[i], pres[i]))
  /\ functionResponses' =
       PlaceResponse(functionResponses, i, FunctionResponse(functionCalls[i], pres[i]))
  /\ SetM(Release(CurM, i))
  /\ UNCHANGED <<twoVars, appVars, limVars, httpVars, sseVars, finalText, apiKey, faults, messages, maxToolCalls, rpc, iterations, roundTrips,
                 currentMessage, lastSent, functionCalls, dispatched, modelLog, response>>

\* callMcpTool rejected: Promise.all rejects with the first rejection and the
\* exception leaves sendMessageToGemini (line 1365).
ToolRaises(i) ==
  /\ rpc \in {"awaitTools", "done"}
  /\ i \in DOMAIN functionCalls
  /\ op[i] = "call" /\ pc[i] = "exc"
  /\ IF rpc = "awaitTools"
     THEN response' = Threw(pres[i].text) /\ rpc' = "done"
     ELSE UNCHANGED <<response, rpc>>
  /\ SetM(Release(CurM, i))
  /\ UNCHANGED <<twoVars, appVars, limVars, httpVars, sseVars, finalText, apiKey, faults, messages, maxToolCalls, iterations, roundTrips,
                 currentMessage, lastSent, functionCalls, functionResponses,
                 toolCallRecords, dispatched, modelLog>>

\* Promise.all resolved (lines 1401-1411), then the loop's head again.
ResumeLoop ==
  /\ rpc = "awaitTools"
  /\ AllSettled(functionResponses)
  /\ currentMessage' = PartsMessage(functionResponses)
  /\ LoopHead(PartsMessage(functionResponses))
  /\ UNCHANGED <<twoVars, appVars, limVars, httpVars, sseVars, finalText, mgrVars, procVars, messages, maxToolCalls, functionCalls,
                 functionResponses, toolCallRecords, dispatched, modelLog>>

\* SIGTERM / SIGINT handler (lines 225-233): `await closeMcpClient()`, whose
\* result nobody takes. With no client the call returns at once.
Signal ==
  /\ pc[SignalProc] = "idle"
  /\ mcpClient # null
  /\ SetM(closeMcpClientBegin(CurM, SignalProc))
  /\ UNCHANGED <<twoVars, appVars, limVars, httpVars, sseVars, apiKey, faults, runVars>>

SignalDone ==
  /\ pc[SignalProc] = "closing"
  /\ SetM(Release(closeMcpClientEnd(CurM, SignalProc), SignalProc))
  /\ UNCHANGED <<twoVars, appVars, limVars, httpVars, sseVars, apiKey, faults, runVars>>

\* ------------------------------------------------ Mcp::StreamsController
\* Messages the client submits on one session (tool calls, resource queries,
\* malformed messages).
MaxRequests == 3

SseTools == {"refund_order", "no_such_tool"}
NoCall == [id |-> null, tool |-> ""]

\* Only the presence of the key is checked.
KeyPresentOnly(key, expected) == key # null
\* The two values are compared without the presence checks.
KeysEqualOnly(key, expected) == key = expected
\* authenticate_mcp_client! (119-132); a blank or missing key is `null`.
authenticate_mcp_client(key, expected) ==
  key # null /\ expected # null /\ key = expected

\* One "event: ... data: ..." message on the stream. No caller of
\* write_sse_event passes id:, so the message has no id line; req is the
\* request whose handling wrote it.
SseEvent(name, r) == [event |-> name, id |-> null, req |-> r]

\* write_sse_event (158-170): nothing is written to a closed stream.
write_sse_event(evs, closed, name, r) ==
  IF closed THEN evs ELSE Append(evs, SseEvent(name, r))

\* response.stream.write (166) raises ClientDisconnected once the client is
\* gone; that is no IOError, so line 167 does not rescue it.
WriteRaises(closed, gone) == ~closed /\ gone

\* No initial event.
NoGreeting(evs, closed) == evs
\* lines 58-66
Greeting(evs, closed) == write_sse_event(evs, closed, "connected", null)

\* The rescue clauses of `stream` (85-99): the event each of them writes.
RescueEvent(path) ==
  IF path = "timeout" THEN "timeout"
  ELSE IF path = "error" THEN "error"
  ELSE ""

\* The stream closed at the end of the action's body only.
ClosesStreamOnReturnOnly(path) == path = "return"
\* The ensure block (100-105) runs whichever way the action ends.
ClosesStream(path) == path \in {"return", "disconnect", "timeout", "error"}

\* No rescue clause in handle_tool_call.
RescuesNothing(exc) == FALSE
\* `rescue StandardError` of handle_tool_call (218): a failure of the tool, a
\* Timeout::Error and ClientDisconnected are all StandardErrors.
RescuesStandardError(exc) == exc \in {"fail", "expired", "disconnected"}

\* What a callback handed back to the handler: "result", "error_result", or
\* "raised" when an exception left the callback.
CallbackReturn(r, via, kind) == [req |-> r, via |-> via, kind |-> kind]

\* `stream` from the point where handle_stream returns or raises, or where a
\* write raises ClientDisconnected: the matching rescue clause (85-99), then the
\* ensure block (100-105).
Finish(path, evs) ==
  /\ events' = IF RescueEvent(path) = "" THEN evs
               ELSE write_sse_event(evs, streamClosed, RescueEvent(path), null)
  /\ streamClosed' = (streamClosed \/ ClosesStream(path))
  /\ closeCalls' = IF ClosesStream(path) /\ ~streamClosed
                   THEN closeCalls + 1 ELSE closeCalls
  /\ exitPath' = path
  /\ sess' = "ended"
  /\ cur' = NoCall

\* GET /mcp/sse: the before_action chain (43-46) and `stream` up to
\* handle_stream (54-83). Rendering the 401 halts the chain.
Open ==
  /\ sess = "new"
  /\ IF authenticate_mcp_client(header, expectedKey)
     THEN /\ status' = 200
          /\ IF WriteRaises(streamClosed, clientGone)
             THEN Finish("disconnect", Greeting(events, streamClosed))
             ELSE /\ events' = Greeting(events, streamClosed)
                  /\ sess' = "streaming"
                  /\ UNCHANGED <<streamClosed, closeCalls, exitPath, cur>>
     ELSE /\ status' = 401
          /\ sess' = "rejected"
          /\ UNCHANGED <<events, streamClosed, closeCalls, exitPath, cur>>
  /\ UNCHANGED <<header, expectedKey, clientGone, expired, submitted, returns>>
  /\ UNCHANGED <<mgrVars, procVars, runVars, twoVars, appVars, limVars, httpVars>>

\* The client goes away.
ClientDisconnects ==
  /\ sess \in {"new", "streaming", "inTool"}
  /\ ~clientGone
  /\ clientGone' = TRUE
  /\ UNCHANGED <<header, expectedKey, sess, status, events, streamClosed, closeCalls,
                 expired, submitted, cur, returns, exitPath>>
  /\ UNCHANGED <<mgrVars, procVars, runVars, twoVars, appVars, limVars, httpVars>>

\* handle_stream (83) ends: it returns, or raises ClientDisconnected,
\* Timeout::Error or another StandardError. The timeout may also expire while a
\* callback runs and unwind through it.
StreamExit(path) ==
  /\ sess = "streaming" \/ (sess = "inTool" /\ path = "timeout")
  /\ path = "disconnect" => clientGone
  /\ expired' = (expired \/ path = "timeout")
  /\ Finish(path, events)
  /\ UNCHANGED <<header, expectedKey, status, clientGone, submitted, returns>>
  /\ UNCHANGED <<mgrVars, procVars, runVars, twoVars, appVars, limVars, httpVars>>

\* The handler received a tool call and invokes on_tool_call:
\* handle_tool_call up to FastMcp.execute_tool (200-205).
ToolCallBegin(tool) ==
  /\ sess = "streaming"
  /\ submitted < MaxRequests
  /\ submitted' = submitted + 1
  /\ cur' = [id |-> submitted + 1, tool |-> tool]
  /\ sess' = "inTool"
  /\ UNCHANGED <<header, expectedKey, status, events, streamClosed, closeCalls,
                 clientGone, expired, returns, exitPath>>
  /\ UNCHANGED <<mgrVars, procVars, runVars, twoVars, appVars, limVars, httpVars>>

\* A callback returns to the handler's loop.
BackToLoop(evs, ret) ==
  /\ events' = evs
  /\ returns' = Append(returns, ret)
  /\ sess' = "streaming"
  /\ cur' = NoCall
  /\ UNCHANGED <<streamClosed, closeCalls, exitPath>>

\* An exception leaves a callback and handle_stream with it.
Unwind(path, evs, ret) ==
  /\ returns' = Append(returns, ret)
  /\ Finish(path, evs)

\* FastMcp.execute_tool returns or raises; the rest of handle_tool_call
\* (205-228). outcome: "ok", "fail" (unknown tool, invalid arguments, error in
\* the tool) or "expired" (Timeout::Error raised in the thread while the tool
\* runs).
ToolCallEnd(outcome) ==
  /\ sess = "inTool"
  /\ cur.tool = "no_such_tool" => outcome # "ok"
  /\ expired' = (expired \/ outcome = "expired")
  /\ LET r == cur.id
         gone == WriteRaises(streamClosed, clientGone)
         result == write_sse_event(events, streamClosed, "tool_result", r)
     IN IF outcome = "ok"
        THEN IF ~gone
             THEN BackToLoop(result, CallbackReturn(r, "tool", "result"))
             ELSE IF RescuesStandardError("disconnected")
             THEN Unwind("disconnect",
                         write_sse_event(result, streamClosed, "tool_error", r),
                         CallbackReturn(r, "tool", "raised"))
             ELSE Unwind("disconnect", result, CallbackReturn(r, "tool", "raised"))
        ELSE IF RescuesStandardError(outcome)
        THEN IF ~gone
             THEN BackToLoop(write_sse_event(events, streamClosed, "tool_error", r),
                             CallbackReturn(r, "tool", "error_result"))
             ELSE Unwind("disconnect",
                         write_sse_event(events, streamClosed, "tool_error", r),
                         CallbackReturn(r, "tool", "raised"))
        ELSE Unwind(IF outcome = "expired" THEN "timeout" ELSE "error", events,
                    CallbackReturn(r, "tool", "raised"))
  /\ UNCHANGED <<header, expectedKey, status, clientGone, submitted>>
  /\ UNCHANGED <<mgrVars, procVars, runVars, twoVars, appVars, limVars, httpVars>>

\* handle_resource_query (236-258): its rescue clause writes no event and
\* also catches the ClientDisconnected of its own write.
ResourceQuery(ok) ==
  /\ sess = "streaming"
  /\ submitted < MaxRequests
  /\ submitted' = submitted + 1
  /\ LET r == submitted + 1
         evs == write_sse_event(events, streamClosed, "resource_result", r)
     IN IF ok /\ ~WriteRaises(streamClosed, clientGone)
        THEN BackToLoop(evs, CallbackReturn(r, "resource", "result"))
        ELSE BackToLoop(IF ok THEN evs ELSE events,
                        CallbackReturn(r, "resource", "error_result"))
  /\ UNCHANGED <<header, expectedKey, status, clientGone, expired>>
  /\ UNCHANGED <<mgrVars, procVars, runVars, twoVars, appVars, limVars, httpVars>>

\* handle_protocol_error (266-277): no rescue clause.
ProtocolError ==
  /\ sess = "streaming"
  /\ submitted < MaxRequests
  /\ submitted' = submitted + 1
  /\ LET r == submitted + 1
         evs == write_sse_event(events, streamClosed, "protocol_error", r)
     IN IF ~WriteRaises(streamClosed, clientGone)
        THEN BackToLoop(evs, CallbackReturn(r, "protocol", "result"))
        ELSE Unwind("disconnect", evs, CallbackReturn(r, "protocol", "raised"))
  /\ UNCHANGED <<header, expectedKey, status, clientGone, expired>>
  /\ UNCHANGED <<mgrVars, procVars, runVars, twoVars, appVars, limVars, httpVars>>

\* No request to the streaming endpoint.
NoSession ==
  /\ header = null
  /\ expectedKey = null
  /\ sess = "none"
  /\ status = 0
  /\ events = <<>>
  /\ streamClosed = FALSE
  /\ closeCalls = 0
  /\ clientGone = FALSE
  /\ expired = FALSE
  /\ submitted = 0
  /\ cur = NoCall
  /\ returns = <<>>
  /\ exitPath = "none"

\* A request arrives: any header against any configured key.
InitSession ==
  /\ header \in {null, 1, 2}
  /\ expectedKey \in {null, 1}
  /\ sess = "new"
  /\ status = 0
  /\ events = <<>>
  /\ streamClosed = FALSE
  /\ closeCalls = 0
  /\ clientGone = FALSE
  /\ expired = FALSE
  /\ submitted = 0
  /\ cur = NoCall
  /\ returns = <<>>
  /\ exitPath = "none"

MessageLists == {<<>>, <<"user">>, <<"user", "assistant">>}

\* ------------------------------- two invocations of sendMessageToGemini
\* Largest ceiling of the two concurrent runs.
MaxCeilingTwo == 2
\* Tool lists the server offers one after the other.
MaxVersions == 2

\* The two invocations; invocation r makes its manager calls on slot r and
\* its model requests one function call per turn.
Runs == {1, 2}

\* The locals of one invocation (lines 1196-1215) and what it returned.
IdleRun(max) ==
  [rpc |-> "idle", max |-> max, iterations |-> 0, roundTrips |-> 0,
   listCalls |-> 0, startedAt |-> 0, tools |-> 0, records |-> <<>>,
   response |-> NoResponse]

\* lines 1384-1389, with the invocation and the turn that pushed the record.
RunRecord(r, turn, res) ==
  [name |-> ToolAt(r), result |-> Content([name |-> ToolAt(r), args |-> r], res),
   run |-> r, turn |-> turn]

\* One record list for the whole module.
RecordsOfModule(r) == 1
\* toolCallRecords is a local of the invocation (line 1208).
RecordsOf(r) == r

\* A tool list kept from an earlier call.
listMcpToolsCached(fresh, cached) == IF cached # 0 THEN cached ELSE fresh
\* listMcpTools asks the server on every call (mcp-client.server.ts 159-163).
listMcpTools(fresh, cached) == fresh

\* The list an earlier invocation fetched, if any.
EarlierTools ==
  IF \E q \in Runs : runs[q].tools # 0
  THEN runs[CHOOSE q \in Runs : runs[q].tools # 0].tools
  ELSE 0

\* The while loop's head and the code after the loop (1288-1293, 1413-1433).
RunLoopHead(run) ==
  IF LoopCond(run.iterations, run.max)
  THEN [run EXCEPT !.iterations = @ + 1, !.roundTrips = @ + 1, !.rpc = "awaitModel"]
  ELSE [run EXCEPT !.rpc = "done",
                   !.response = Returned(LimitMsg, run.records, run.iterations)]

\* sendMessageToGemini is called: up to `await listMcpTools()` (1196-1230).
R_Start(r) ==
  /\ runs[r].rpc = "idle"
  /\ pc[r] = "idle"
  /\ NeedsAttempt(CurM, "list") => CanStart(attempt)
  /\ SetM(Invoke(CurM, r, "list", apiKey))
  /\ runs' = [runs EXCEPT ![r].rpc = "listing", ![r].listCalls = @ + 1,
                          ![r].startedAt = toolVersion]
  /\ UNCHANGED <<apiKey, faults, toolVersion, runVars, sseVars, appVars, limVars, httpVars>>

\* client.listTools() of listMcpTools settles and the invocation continues
\* (mcp-client.server.ts 161-162, part_003 1230-1293).
R_ListDone(r, ok) ==
  /\ runs[r].rpc = "listing"
  /\ op[r] = "list" /\ pc[r] = "busy"
  /\ ok => conn[target[r]] = "open"
  /\ Fault(~ok /\ conn[target[r]] = "open")
  /\ SetM(Release(AfterRequest(CurM, r, ok), r))
  /\ runs' = [runs EXCEPT ![r] =
       IF ok
       THEN RunLoopHead([@ EXCEPT !.tools = listMcpTools(toolVersion, EarlierTools)])
       ELSE [@ EXCEPT !.rpc = "done", !.response = Threw("listTools failed")]]
  /\ UNCHANGED <<apiKey, toolVersion, runVars, sseVars, appVars, limVars, httpVars>>

\* getMcpClient rejected inside listMcpTools or callMcpTool: the exception
\* leaves sendMessageToGemini (1230, 1365).
R_Raised(r) ==
  /\ runs[r].rpc \in {"listing", "awaitTools"}
  /\ pc[r] = "exc"
  /\ runs' = [runs EXCEPT ![r].rpc = "done", ![r].response = Threw(pres[r].text)]
  /\ SetM(Release(CurM, r))
  /\ UNCHANGED <<apiKey, faults, toolVersion, runVars, sseVars, appVars, limVars, httpVars>>

\* chat.sendMessage settles (1293-1379): rejected, no candidate, a final
\* answer, or one function call, which is dispatched.
R_Model(r, answer) ==
  /\ runs[r].rpc = "awaitModel"
  /\ answer = "calls" =>
       /\ pc[r] = "idle"
       /\ NeedsAttempt(CurM, "call") => CanStart(attempt)
  /\ SetM(IF answer = "calls" THEN Invoke(CurM, r, "call", apiKey) ELSE CurM)
  /\ LET run == runs[r]
     IN runs' = [runs EXCEPT ![r] =
          IF answer = "calls" THEN [run EXCEPT !.rpc = "awaitTools"]
          ELSE [run EXCEPT !.rpc = "done",
                           !.response =
                             IF answer = "reject" THEN Threw(ModelError)
                             ELSE IF answer = "nocandidate"
                             THEN Returned(ApologyMsg, run.records, run.iterations)
                             ELSE Returned(FinalMessage("answer"), run.records, run.iterations)]]
  /\ UNCHANGED <<apiKey, faults, toolVersion, runVars, sseVars, appVars, limVars, httpVars>>

\* client.callTool() of callMcpTool settles and the invocation continues:
\* the record is pushed and the loop goes on (mcp-client.server.ts 184-205,
\* part_003 1381-1411).
R_ToolDone(r, ok) ==
  /\ runs[r].rpc = "awaitTools"
  /\ op[r] = "call" /\ pc[r] = "busy"
  /\ ok => conn[target[r]] = "open"
  /\ Fault(~ok /\ conn[target[r]] = "open")
  /\ LET m1 == AfterRequest(CurM, r, ok)
         rec == RunRecord(r, runs[r].iterations, m1.pres[r])
         pushed == [runs EXCEPT ![RecordsOf(r)].records = Append(@, rec)]
     IN /\ SetM(Release(m1, r))
        /\ runs' = [pushed EXCEPT ![r] = RunLoopHead(pushed[r])]
  /\ UNCHANGED <<apiKey, toolVersion, runVars, sseVars, appVars, limVars, httpVars>>

\* A tool is registered or removed on the server.
ToolsChange ==
  /\ toolVersion < MaxVersions
  /\ toolVersion' = toolVersion + 1
  /\ UNCHANGED <<mgrVars, procVars, runVars, sseVars, appVars, limVars, httpVars, runs>>

\* No invocation besides the one of runVars.
NoTwo ==
  /\ runs = [r \in Runs |-> IdleRun(0)]
  /\ toolVersion = 1

\* ---------------------------------------------- Mcp::ToolsController
\* Requests made to the direct-execution interface.
MaxHttp == 2

\* Values of Rails.env.
HttpEnvs == {"development", "production", "test"}

\* Both routes are drawn `if Rails.env.development?` (routes, lines 20, 23).
RouteDefined(env) == env = "development"

\* ensure_development_environment! lets the action run (lines 76-83).
ensure_development_environment(env) == env = "development"

\* An interface reachable in every environment.
NoEnvironmentGate(env) == 0
\* The status a request is refused with before any action code runs, 0 when
\* it is let through: no route outside development (404), then
\* before_action :ensure_development_environment! (line 17, 403).
EnvironmentGate(env) ==
  IF ~RouteDefined(env) THEN 404
  ELSE IF ~ensure_development_environment(env) THEN 403
  ELSE 0

\* before_action :authenticate_mcp_client!, only: [:execute] (line 18).
AuthenticatedActions == {"execute"}

\* authenticate_mcp_client! of the tools controller (lines 85-95).
authenticate_tools_client(key, expected) ==
  key # null /\ expected # null /\ key = expected

\* What one request is answered with: the router, the two before_actions
\* in order, then index (25-41) or execute (53-72).
ToolsResponse(env, expected, action, key, tool) ==
  LET refused(code) == [action |-> action, key |-> key, tool |-> tool,
                        status |-> code, listed |-> FALSE, executed |-> FALSE]
  IN IF EnvironmentGate(env) # 0 THEN refused(EnvironmentGate(env))
     ELSE IF action \in AuthenticatedActions /\ ~authenticate_tools_client(key, expected)
          THEN refused(401)
     ELSE IF action = "index"
          THEN [refused(200) EXCEPT !.listed = TRUE]
     ELSE IF tool = "refund_order"
          THEN [refused(200) EXCEPT !.executed = TRUE]
     ELSE refused(500)

\* GET /mcp/tools or POST /mcp/tools/:tool_name is served.
ToolsRequest(action, key, tool) ==
  /\ Len(toolResponses) < MaxHttp
  /\ toolResponses' =
       Append(toolResponses, ToolsResponse(railsEnv, expectedKey, action, key, tool))
  /\ UNCHANGED <<mgrVars, procVars, runVars, sseVars, twoVars, appVars, limVars, railsEnv>>

\* No request to the direct-execution interface.
NoHttp ==
  /\ railsEnv = "development"
  /\ toolResponses = <<>>

\* ------------------------------------------- POST /api/chat (_index.tsx)
\* Requests the chat action answers in one behaviour.
MaxChatRequests == 2

\* What `message` of the parsed body is: absent, a number, "", "   ", a text.
ChatMessages == {"missing", "number", "empty", "blank", "text"}
\* The body: not JSON, or JSON with conversationHistory absent, an array, or
\* a value that cannot be spread.
ChatBodies == {"unparsable", "default", "array", "notIterable"}

\* `!message || typeof message !== 'string' || message.trim().length === 0`
\* (line 90).
MessageRejected(message) == message \in {"missing", "number", "empty", "blank"}

\* An exception of the action's body that no catch block handles.
CaughtNowhere(step) == FALSE
\* The try block (84-137) holds every step after the method check.
CaughtByAction(step) == step \in {"parse", "spread", "run"}

\* The action (78-138): the response and whether sendMessageToGemini was
\* called; `escaped` when an exception left the action.
ChatAction(method, body, message, outcome) ==
  LET answer(code, ok, started) ==
        [status |-> code, success |-> ok, started |-> started, escaped |-> FALSE]
      failed(step, started) ==
        IF CaughtByAction(step) THEN answer(500, FALSE, started)
        ELSE [status |-> 0, success |-> FALSE, started |-> started, escaped |-> TRUE]
  IN IF method # "POST" THEN answer(405, FALSE, FALSE)
     ELSE IF body = "unparsable" THEN failed("parse", FALSE)
     ELSE IF MessageRejected(message) THEN answer(400, FALSE, FALSE)
     ELSE IF body = "notIterable" THEN failed("spread", FALSE)
     ELSE IF outcome = "raised" THEN failed("run", TRUE)
     ELSE answer(200, TRUE, TRUE)

\* One request to the route is answered.
ChatRequest(method, body, message, outcome) ==
  /\ Len(chatLog) < MaxChatRequests
  /\ chatLog' = Append(chatLog,
       [method |-> method, body |-> body, message |-> message, outcome |-> outcome,
        response |-> ChatAction(method, body, message, outcome)])
  /\ UNCHANGED <<mgrVars, procVars, runVars, sseVars, twoVars, limVars, httpVars, refundLog>>

\* ------------------------------------- Tools::RefundOrder (refund_order.rb)
\* Calls of the tool in one behaviour.
MaxRefundCalls == 2

\* What fetch_order (76-85) may hand to `call`: no order, or an order with
\* its financial status, its age in days and its total.
NoOrder == [found |-> FALSE, status |-> "", age |-> 0, total |-> 0]
RefundOrders ==
  {NoOrder} \cup
  [found : {TRUE}, status : {"paid", "pending"}, age : {10, 30, 31}, total : {2}]
\* amount: nil (`null`) or a number.
RefundAmounts == {null, 1, 2, 3}
\* The step of `call` at which a StandardError is raised by what it calls.
RefundFaults == {"none", "fetch", "process"}

\* The checks without the refund window.
validate_without_window(order, amount) ==
  IF order.status # "paid" THEN "Order not paid yet"
  ELSE IF amount # null /\ amount > order.total THEN "Refund amount exceeds order total"
  ELSE ""
\* validate_refund_eligibility! (87-101): the message it raises, "" when it
\* returns true.
validate_refund_eligibility(order, amount) ==
  IF order.status # "paid" THEN "Order not paid yet"
  ELSE IF order.age > 30 THEN "Order too old to refund (>30 days)"
  ELSE IF amount # null /\ amount > order.total THEN "Refund amount exceeds order total"
  ELSE ""

\* `rescue StandardError => e` of `call` (69-71) covers the whole method body.
RefundRescues(step) == step \in {"fetch", "validate", "process"}

\* error_response (120-126), or the exception when nothing rescues it.
RefundError(step, msg) ==
  [success |-> FALSE, error |-> msg, refunded |-> FALSE, amount |-> 0,
   raised |-> ~RefundRescues(step)]

\* RefundOrder#call (45-72) with process_refund (103-118).
RefundOrderCall(order, amount, fault) ==
  IF fault = "fetch" THEN RefundError("fetch", "fetch_order failed")
  ELSE IF ~order.found THEN RefundError("fetch", "Order not found")
  ELSE IF validate_refund_eligibility(order, amount) # ""
       THEN RefundError("validate", validate_refund_eligibility(order, amount))
  ELSE IF fault = "process" THEN RefundError("process", "process_refund failed")
  ELSE [success |-> TRUE, error |-> "", refunded |-> TRUE,
        amount |-> IF amount # null THEN amount ELSE order.total,
        raised |-> FALSE]

\* The dispatcher calls the tool once.
RefundCall(order, amount, fault) ==
  /\ Len(refundLog) < MaxRefundCalls
  /\ refundLog' = Append(refundLog,
       [order |-> order, amount |-> amount, fault |-> fault,
        result |-> RefundOrderCall(order, amount, fault)])
  /\ UNCHANGED <<mgrVars, procVars, runVars, sseVars, twoVars, limVars, httpVars, chatLog>>

\* No request to the chat action and no call of the refund tool.
NoApp ==
  /\ chatLog = <<>>
  /\ refundLog = <<>>

\* The module as loaded (lines 30-31) with no call made, in a behaviour
\* that may start up to n connection attempts.
InitMgrUpTo(n) ==
  /\ attemptLimit = n
  /\ mcpClient = null
  /\ connectionPromise = null
  /\ apiKey \in BOOLEAN
  /\ attempt = [p \in Attempts |-> "unused"]
  /\ conn = [p \in Attempts |-> "none"]
  /\ closeCount = [p \in Attempts |-> 0]
  /\ faults = 0
  /\ op = [c \in Procs |-> "none"]
  /\ pc = [c \in Procs |-> "idle"]
  /\ first = [c \in Procs |-> FALSE]
  /\ target = [c \in Procs |-> null]
  /\ pres = [c \in Procs |-> NoResult]

InitMgr == InitMgrUpTo(MaxAttempts)

NoRun ==
  /\ messages = <<>>
  /\ maxToolCalls = 0
  /\ rpc = "idle"
  /\ iterations = 0
  /\ roundTrips = 0
  /\ currentMessage = TextMessage
  /\ lastSent = TextMessage
  /\ functionCalls = <<>>
  /\ functionResponses = <<>>
  /\ toolCallRecords = <<>>
  /\ dispatched = 0
  /\ modelLog = <<>>
  /\ finalText = ""
  /\ response = NoResponse

InitConn == InitMgr /\ NoRun /\ NoSession /\ NoTwo /\ NoHttp /\ NoApp

NextConn ==
  \/ \E c \in Callers, o \in {"get", "list", "call", "close"} : Call(c, o)
  \/ \E p \in Attempts, ok \in BOOLEAN : InitConnectDone(p, ok)
  \/ \E p \in Attempts, ok \in BOOLEAN : InitListDone(p, ok)
  \/ \E c \in Callers : ConnectSettled(c)
  \/ \E c \in Callers, ok \in BOOLEAN : RequestSettled(c, ok)
  \/ \E c \in Callers : CloseSettled(c)
  \/ \E c \in Callers : Collect(c)

\* The connection manager used by arbitrary concurrent callers.
SpecConn == InitConn /\ [][NextConn]_vars

InitRetry == InitMgrUpTo(MaxRetryAttempts) /\ NoRun /\ NoSession /\ NoTwo /\ NoHttp /\ NoApp

\* The same callers with one more connection attempt to start.
SpecRetry == InitRetry /\ [][NextConn]_vars

InitRun ==
  /\ messages \in MessageLists
  /\ maxToolCalls \in 0..MaxCeiling
  /\ rpc = "idle"
  /\ iterations = 0
  /\ roundTrips = 0
  /\ currentMessage = TextMessage
  /\ lastSent = TextMessage
  /\ functionCalls = <<>>
  /\ functionResponses = <<>>
  /\ toolCallRecords = <<>>
  /\ dispatched = 0
  /\ modelLog = <<>>
  /\ finalText = ""
  /\ response = NoResponse

Init == InitMgr /\ InitRun /\ NoSession /\ NoTwo /\ NoHttp /\ NoApp

Next ==
  \/ StartRun
  \/ ToolsUnavailable
  \/ ToolsListed
  \/ ModelRejects
  \/ ModelNoCandidate
  \/ \E text \in {"", "answer"} : ModelAnswers(text)
  \/ \E k \in 1..MaxCalls : ModelRequests(k)
  \/ \E i \in 1..MaxCalls : ToolReturns(i)
  \/ \E i \in 1..MaxCalls : ToolRaises(i)
  \/ ResumeLoop
  \/ Signal
  \/ \E p \in Attempts, ok \in BOOLEAN : InitConnectDone(p, ok)
  \/ \E p \in Attempts, ok \in BOOLEAN : InitListDone(p, ok)
  \/ \E c \in Procs : ConnectSettled(c)
  \/ \E c \in Procs, ok \in BOOLEAN : RequestSettled(c, ok)
  \/ SignalDone

\* One run of sendMessageToGemini over the connection manager, with the
\* shutdown handler firing at any time.
Spec == Init /\ [][Next]_vars

InitSse == InitMgr /\ apiKey /\ NoRun /\ InitSession /\ NoTwo /\ NoHttp /\ NoApp

NextSse ==
  \/ Open
  \/ ClientDisconnects
  \/ \E path \in {"return", "disconnect", "timeout", "error"} : StreamExit(path)
  \/ \E tool \in SseTools : ToolCallBegin(tool)
  \/ \E outcome \in {"ok", "fail", "expired"} : ToolCallEnd(outcome)
  \/ \E ok \in BOOLEAN : ResourceQuery(ok)
  \/ ProtocolError

\* One request to GET /mcp/sse and the session it opens.
SpecSse == InitSse /\ [][NextSse]_vars

InitTwo ==
  /\ InitMgr /\ NoRun /\ NoSession /\ NoHttp /\ NoApp
  /\ toolVersion = 1
  /\ runs \in [Runs -> {IdleRun(n) : n \in 1..MaxCeilingTwo}]

NextTwo ==
  \/ \E r \in Runs : R_Start(r)
  \/ \E r \in Runs, ok \in BOOLEAN : R_ListDone(r, ok)
  \/ \E r \in Runs : R_Raised(r)
  \/ \E r \in Runs, answer \in {"reject", "nocandidate", "final", "calls"} : R_Model(r, answer)
  \/ \E r \in Runs, ok \in BOOLEAN : R_ToolDone(r, ok)
  \/ ToolsChange
  \/ \E p \in Attempts, ok \in BOOLEAN : InitConnectDone(p, ok)
  \/ \E p \in Attempts, ok \in BOOLEAN : InitListDone(p, ok)
  \/ \E r \in Runs : ConnectSettled(r)

\* Two invocations of sendMessageToGemini over the one connection manager.
SpecTwo == InitTwo /\ [][NextTwo]_vars

InitTools ==
  /\ InitMgr /\ NoRun /\ NoTwo /\ NoApp
  /\ header = null
  /\ expectedKey \in {null, 1}
  /\ sess = "none"
  /\ status = 0
  /\ events = <<>>
  /\ streamClosed = FALSE
  /\ closeCalls = 0
  /\ clientGone = FALSE
  /\ expired = FALSE
  /\ submitted = 0
  /\ cur = NoCall
  /\ returns = <<>>
  /\ exitPath = "none"
  /\ railsEnv \in HttpEnvs
  /\ toolResponses = <<>>

NextTools ==
  \E action \in {"index", "execute"}, key \in {null, 1, 2}, tool \in SseTools :
    ToolsRequest(action, key, tool)

\* Requests to the direct-execution interface in one environment.
SpecTools == InitTools /\ [][NextTools]_vars

\* The single run where every pending model call, tool call and manager
\* call completes and every continuation that can run does run.
SpecFair == Spec /\ WF_vars(Next)

\* An exported function other than closeMcpClient is called while the
\* shutdown's closeMcpClient has not returned.
CallBeforeShutdown(c, o) ==
  /\ pc[SignalProc] # "ret"
  /\ Call(c, o)

NextShut ==
  \/ \E c \in Callers, o \in {"get", "list", "call"} : CallBeforeShutdown(c, o)
  \/ Call(SignalProc, "close")
  \/ CloseSettled(SignalProc)
  \/ \E p \in Attempts, ok \in BOOLEAN : InitConnectDone(p, ok)
  \/ \E p \in Attempts, ok \in BOOLEAN : InitListDone(p, ok)
  \/ \E c \in Callers : ConnectSettled(c)
  \/ \E c \in Callers, ok \in BOOLEAN : RequestSettled(c, ok)
  \/ \E c \in Callers : Collect(c)

\* The connection manager up to and after the one closeMcpClient of a
\* shutdown, whose return is never followed by a new call.
SpecShut == InitConn /\ [][NextShut]_vars

NextChat ==
  \E method \in {"GET", "POST"}, body \in ChatBodies,
     message \in ChatMessages, outcome \in {"returned", "raised"} :
    ChatRequest(method, body, message, outcome)

\* Requests to POST /api/chat, each with any body and any outcome of the run.
SpecChat == InitConn /\ [][NextChat]_vars

NextRefund ==
  \E order \in RefundOrders, amount \in RefundAmounts, fault \in RefundFaults :
    RefundCall(order, amount, fault)

\* Calls of refund_order on any order, with any amount.
SpecRefund == InitConn /\ [][NextRefund]_vars

OpenConns == {p \in Attempts : conn[p] = "open"}

\* ================================================================ claims
LastIs(kind) == Len(modelLog) > 0 /\ modelLog[Len(modelLog)] = kind
AlwaysCalls == \A j \in DOMAIN modelLog : modelLog[j] = "calls"
InFlight == {p \in Attempts : attempt[p] \in {"connecting", "listing"}}
Resolved == {p \in Attempts : attempt[p] = "resolved"}
NoCloseYet == \A p \in Attempts : closeCount[p] = 0

\* C1: a run never issues more than maxToolCalls model round-trips and its
\* iteration counter never exceeds maxToolCalls; with maxToolCalls = 3 and a
\* model that requests tool calls on every turn, a run that returns has made
\* exactly 3 round-trips, reports iterations = 3 and the limit-exceeded message.
C1_RoundTripsBounded ==
  /\ roundTrips <= maxToolCalls
  /\ iterations <= maxToolCalls
  /\ (maxToolCalls = 3 /\ rpc = "done" /\ response.kind = "returned" /\ AlwaysCalls)
       => /\ roundTrips = 3
          /\ iterations = 3
          /\ response.iterations = 3
          /\ response.message = LimitMsg
C1_Witness ==
  /\ maxToolCalls = 3 /\ rpc = "done" /\ AlwaysCalls
  /\ Len(modelLog) = 3 /\ roundTrips = 3 /\ response.message = LimitMsg

\* C2: as long as closeMcpClient has closed nothing, at most one connection
\* attempt is in flight, every caller waiting on an unsettled attempt waits on
\* the one stored in connectionPromise, at most one attempt ever succeeds and
\* every caller that obtained a client obtained that one.
C2_SingleFlight ==
  NoCloseYet =>
    /\ Cardinality(InFlight) <= 1
    /\ \A c \in Procs :
         (pc[c] = "wait" /\ target[c] \in InFlight) => target[c] = connectionPromise
    /\ Cardinality(Resolved) <= 1
    /\ \A p \in Resolved, q \in Attempts : q > p => attempt[q] = "unused"
    /\ mcpClient # null => mcpClient \in Resolved
    /\ \A c \in Procs :
         /\ pres[c].kind = "client" => pres[c].id \in Resolved
         /\ pc[c] = "busy" => target[c] \in Resolved
C2_Witness ==
  /\ NoCloseYet
  /\ \E c, d \in Procs :
       /\ c # d
       /\ pc[c] = "ret" /\ pres[c].kind = "client"
       /\ pc[d] = "wait" /\ ~first[d] /\ target[d] = pres[c].id

\* C3: at most one established and not yet closed connection exists.
C3_AtMostOneOpen == Cardinality(OpenConns) <= 1

\* C4: the function-response message in flight to the model lists, at each
\* index, the response of the call requested at that index.
C4_ResponsesInRequestOrder ==
  (rpc = "awaitModel" /\ lastSent.kind = "parts") =>
    /\ Len(lastSent.parts) = Len(functionCalls)
    /\ \A i \in DOMAIN functionCalls :
         /\ lastSent.parts[i].name = functionCalls[i].name
         /\ lastSent.parts[i].response.of \in {0, functionCalls[i].args}
\* the second requested call completed before the first one
C4_Witness ==
  /\ rpc = "awaitModel" /\ lastSent.kind = "parts"
  /\ Len(functionCalls) = 2
  /\ Len(toolCallRecords) = 2
  /\ toolCallRecords[1].result.of = 2
  /\ toolCallRecords[2].result.of = 1
  /\ lastSent.parts[1].response.of = 1

\* C5: a model call after the first is issued only when every call of the
\* turn has completed, and carries one function response per requested call.
C5_AllOrNone ==
  (rpc = "awaitModel" /\ roundTrips > 1) =>
    /\ lastSent.kind = "parts"
    /\ Len(lastSent.parts) = Len(functionCalls)
    /\ \A i \in DOMAIN functionCalls : lastSent.parts[i] # NoPart /\ pc[i] = "idle"
    /\ Len(toolCallRecords) = dispatched
C5_Witness ==
  /\ rpc = "awaitModel" /\ roundTrips > 1
  /\ Len(functionCalls) = 2 /\ Len(lastSent.parts) = 2

C7_ToolFailureFolded ==
  /\ \A j \in DOMAIN toolCallRecords :
       toolCallRecords[j].result.text = ToolFailed.text =>
         /\ "error" \in DOMAIN toolCallRecords[j].result
         /\ toolCallRecords[j].result.error = TRUE
  /\ ~(rpc = "done" /\ response.kind = "raised" /\ dispatched > 0
       /\ response.message = ConnectError(apiKey))

C9_LimitExceededReturned ==
  (rpc = "done" /\ LastIs("calls") /\ roundTrips = maxToolCalls
     /\ Len(toolCallRecords) = dispatched)
    => /\ response.kind = "returned"
       /\ response.message = LimitMsg
       /\ response.toolCalls = toolCallRecords
       /\ Len(response.toolCalls) = dispatched
       /\ response.iterations = maxToolCalls
C9_Witness ==
  /\ rpc = "done" /\ LastIs("calls") /\ response.message = LimitMsg
  /\ maxToolCalls >= 2 /\ Len(response.toolCalls) > maxToolCalls

\* C10: callMcpTool never raises.
C10_CallNeverRaises == \A c \in Procs : op[c] = "call" => pc[c] # "exc"

\* C11: client.close() is invoked at most once per established connection and
\* no closeMcpClient call raises, however the calls overlap.
C11_CloseIdempotent ==
  /\ \A p \in Attempts : closeCount[p] <= 1
  /\ \A c \in Procs : op[c] = "close" => pc[c] # "exc"

Active == sess \in {"streaming", "inTool", "ended"}
ToolEvents(r) ==
  {i \in DOMAIN events :
     events[i].req = r /\ events[i].event \in {"tool_result", "tool_error"}}
RecognizedEvents ==
  {"connected", "tool_result", "tool_error", "resource_result", "protocol_error",
   "timeout"}

\* C12: the stream action runs only for a request whose X-MCP-Api-Key is
\* present and equal to the configured key; any other request is answered 401,
\* writes no event, handles no message and leaves no session.
C12_OnlyAuthenticatedStream ==
  /\ Active => (header # null /\ header = expectedKey /\ status = 200)
  /\ (sess # "new" /\ ~(header # null /\ header = expectedKey)) =>
       /\ sess = "rejected"
       /\ status = 401
       /\ events = <<>>
       /\ returns = <<>>
       /\ submitted = 0
       /\ exitPath = "none"
\* a request with a key that differs from the configured one was rejected
C12_Witness ==
  sess = "rejected" /\ header # null /\ expectedKey # null /\ header # expectedKey

\* C13: every tool call the session has handled has exactly one tool_result or
\* tool_error event, and that event carries the request's correlation id.
C13_OneResultPerRequest ==
  \A j \in DOMAIN returns :
    returns[j].via = "tool" =>
      /\ Cardinality(ToolEvents(returns[j].req)) = 1
      /\ \A i \in ToolEvents(returns[j].req) : events[i].id = returns[j].req

C15_ClosedExactlyOnce ==
  /\ closeCalls <= 1
  /\ sess = "ended" => (streamClosed /\ closeCalls = 1)
  /\ sess \in {"streaming", "inTool"} => (~streamClosed /\ closeCalls = 0)
C15_Witness ==
  sess = "ended" /\ exitPath = "disconnect" /\ streamClosed /\ Len(returns) > 0

C18_RecognizedEventNames ==
  \A i \in DOMAIN events : events[i].event \in RecognizedEvents

\* C19: an authenticated session has written exactly one connected event and
\* it is the first event of the stream; no other request writes any event.
C19_ConnectedFirst ==
  /\ Active =>
       /\ Len(events) >= 1
       /\ events[1].event = "connected"
       /\ \A i \in DOMAIN events : i > 1 => events[i].event # "connected"
  /\ ~Active => events = <<>>
C19_Witness ==
  /\ sess = "streaming" /\ Len(events) >= 3
  /\ events[1].event = "connected"

\* C20: a run whose model requested one tool call and then answered with text
\* returns that text, one record holding the requested name with the
\* dispatcher's result, and iterations = 2; a run whose first answer holds no
\* tool call returns iterations = 1 and no record.
C20_OneToolThenAnswer ==
  /\ (rpc = "done" /\ modelLog = <<"calls", "final">> /\ Len(functionCalls) = 1
        /\ finalText # "") =>
       /\ response.kind = "returned"
       /\ response.message = finalText
       /\ response.iterations = 2
       /\ Len(response.toolCalls) = 1
       /\ response.toolCalls[1].name = functionCalls[1].name
       /\ response.toolCalls[1].result \in
            {Content(functionCalls[1], ToolOk), Content(functionCalls[1], ToolFailed)}
  /\ (rpc = "done" /\ modelLog = <<"final">>) =>
       /\ response.kind = "returned"
       /\ response.iterations = 1
       /\ response.toolCalls = <<>>
C20_Witness ==
  /\ rpc = "done" /\ modelLog = <<"calls", "final">> /\ Len(functionCalls) = 1
  /\ finalText = "answer" /\ response.message = "answer"
  /\ Len(response.toolCalls) = 1

\* Invocations that returned a response.
ReturnedRuns == {r \in Runs : runs[r].rpc = "done" /\ runs[r].response.kind = "returned"}

\* C21: two concurrent runs share no conversation state: every record an
\* invocation holds or returns was pushed by that invocation, in one of its
\* own turns, and the iteration count it returns is its own.
C21_RunsShareNothing ==
  /\ \A r \in Runs : \A i \in 1..Len(runs[r].records) :
       /\ runs[r].records[i].run = r
       /\ runs[r].records[i].turn = i
  /\ \A r \in ReturnedRuns :
       /\ runs[r].response.toolCalls = runs[r].records
       /\ runs[r].response.iterations = runs[r].iterations
       /\ Len(runs[r].records) <= runs[r].iterations

\* Both invocations overlapped and one has returned its own records while
\* the other holds a record of its own.
C21_Witness ==
  /\ 1 \in ReturnedRuns
  /\ Len(runs[1].response.toolCalls) > 0
  /\ runs[2].rpc \in {"awaitModel", "awaitTools"}
  /\ Len(runs[2].records) > 0
  /\ runs[2].iterations > runs[1].iterations

RunVariant == maxToolCalls - iterations

\* C22: a run with a finite ceiling eventually returns or raises, whatever
\* the model answers, when every model call and tool call completes: the
\* passes the ceiling still allows never go below zero, every pass of the
\* loop uses one up, and a started run ends.
C22_RunTerminates ==
  /\ [](RunVariant \in 0..maxToolCalls)
  /\ [][rpc' = "awaitModel" /\ rpc # "awaitModel" => RunVariant' < RunVariant]_vars
  /\ (rpc # "idle") ~> (rpc = "done")

\* A run that used every pass its ceiling allows, on tool calls, has ended.
C22_Witness ==
  /\ rpc = "done"
  /\ maxToolCalls > 1
  /\ RunVariant = 0
  /\ Len(toolCallRecords) >= maxToolCalls

\* Requests the direct-execution interface has answered.
Answered == {toolResponses[i] : i \in 1..Len(toolResponses)}

\* C25: in development, a request to GET /tools or POST /tools/{name}
\* without the correct X-MCP-Api-Key is answered 401 and neither lists nor
\* executes a tool.
C25_BothEndpointsAuthenticated ==
  railsEnv = "development" =>
    \A q \in Answered :
      ~authenticate_tools_client(q.key, expectedKey) =>
        /\ q.status = 401
        /\ ~q.listed
        /\ ~q.executed

\* C26: outside development every request to the direct-execution
\* interface is refused with 403 or 404, whatever key it presents, and
\* lists and executes nothing.
C26_OnlyInDevelopment ==
  railsEnv # "development" =>
    \A q \in Answered :
      /\ q.status \in {403, 404}
      /\ ~q.listed
      /\ ~q.executed

\* In production, a listing and an execution with the correct key were
\* both refused.
C26_Witness ==
  /\ railsEnv = "production"
  /\ expectedKey # null
  /\ \E q \in Answered : q.action = "execute" /\ q.key = expectedKey /\ q.status = 404
  /\ \E q \in Answered : q.action = "index" /\ q.key = expectedKey /\ q.status = 404

\* C27: toolCallRecords only grows by appending, and a response returned on
\* any path (final answer, limit exceeded, model unavailable) carries the
\* list as it stands: one record for each tool call of the run, all of
\* which have completed.
C27_RecordsAppendOnly ==
  /\ [][/\ Len(toolCallRecords') >= Len(toolCallRecords)
        /\ SubSeq(toolCallRecords', 1, Len(toolCallRecords)) = toolCallRecords]_vars
  /\ [](rpc = "done" /\ response.kind = "returned" =>
          /\ response.toolCalls = toolCallRecords
          /\ Len(toolCallRecords) = dispatched
          /\ \A c \in 1..MaxCalls : pc[c] = "idle")

\* A response returned at the ceiling after three tool calls in two turns.
C27_Witness ==
  /\ rpc = "done"
  /\ response.kind = "returned"
  /\ response.message = LimitMsg
  /\ Len(response.toolCalls) > MaxCalls

\* C28: every tool call a run dispatches has its result sent to the model
\* in a later round-trip: a run that returned did not end on a turn in
\* which the model requested tools, and what it last sent to the model
\* holds the responses of the last tools it ran.
C28_ResultsReachModel ==
  (rpc = "done" /\ response.kind = "returned" /\ dispatched > 0) =>
    /\ ~LastIs("calls")
    /\ lastSent = PartsMessage(functionResponses)

\* C29: getMcpClient never hands out a client on which closeMcpClient has
\* already invoked close: at the step where a caller receives a client, or
\* starts a request on one, close has not been invoked on it.
C29_NeverHandsOutClosing ==
  [][\A c \in Callers :
       /\ (pc[c] # "ret" /\ pc'[c] = "ret" /\ op'[c] = "get"
             /\ pres'[c].kind = "client")
            => closeCount[pres'[c].id] = 0
       /\ (pc[c] # "busy" /\ pc'[c] = "busy")
            => closeCount[target'[c]] = 0]_vars

\* C30: once closeMcpClient has returned and no call is started after it,
\* no connection is or becomes established and no client is stored.
C30_NothingAfterClose ==
  pc[SignalProc] = "ret" =>
    /\ mcpClient = null
    /\ OpenConns = {}

\* C31: within one turn the records appended to toolCallRecords are in the
\* order in which the model requested the calls: once the turn's responses
\* are on their way to the model, the turn's records name the requested
\* calls index by index, as the function-response message does.
C31_RecordsInRequestOrder ==
  (rpc = "awaitModel" /\ lastSent.kind = "parts") =>
    \A i \in DOMAIN functionCalls :
      LET rec == toolCallRecords[Len(toolCallRecords) - Len(functionCalls) + i]
      IN /\ rec.name = functionCalls[i].name
         /\ rec.result = lastSent.parts[i].response

\* C32: when a connection attempt fails, every caller waiting on it gets
\* the failure; the continuation of the caller that started it leaves no
\* in-flight attempt and no client stored; and a failed attempt stays
\* stored only until that continuation has run, so that a later
\* getMcpClient starts a fresh attempt.
C32_FailedAttemptCleared ==
  /\ [][\A c \in Callers :
          (pc[c] = "wait" /\ attempt[target[c]] = "rejected" /\ pc'[c] # "wait") =>
            /\ pc'[c] = "exc"
            /\ pres'[c].text = ConnectError(apiKey)
            /\ first[c] => (connectionPromise' = null /\ mcpClient' = null)]_vars
  /\ [](\A p \in Attempts :
          (connectionPromise = p /\ attempt[p] = "rejected") => FirstPending(CurM, p))

\* The message list is empty or its last message is not from the user.
MalformedInput == messages = <<>> \/ messages[Len(messages)] # "user"

\* C33 (as claimed): a run on a malformed message list fails with 'Last
\* message must be from user', with no model round-trip, no tool call and
\* no record.
C33_MalformedInputRejected ==
  (MalformedInput /\ rpc = "done") =>
    /\ response = Threw(LastMessageError)
    /\ roundTrips = 0 /\ dispatched = 0 /\ toolCallRecords = <<>>

\* C33 (amended): a run on a malformed message list makes no model
\* round-trip, dispatches no tool call and produces no record, and it ends
\* by raising: 'Last message must be from user' once the tool list has been
\* fetched over an established connection, the failure of listMcpTools
\* otherwise.
C33_MalformedInputRaises ==
  MalformedInput =>
    /\ roundTrips = 0 /\ dispatched = 0 /\ toolCallRecords = <<>> /\ modelLog = <<>>
    /\ rpc \in {"idle", "listing", "done"}
    /\ rpc = "done" =>
         /\ response.kind = "raised"
         /\ response.message \in
              {LastMessageError, ConnectError(apiKey), "listTools failed"}
         /\ response.message = LastMessageError => Resolved # {}
         /\ response.message = ConnectError(apiKey) => Resolved = {}

\* An empty message list rejected after the tools were listed.
C33_Witness ==
  /\ messages = <<>>
  /\ rpc = "done"
  /\ response = Threw(LastMessageError)
  /\ Resolved # {}

\* Events written while request r was handled.
EventsOf(r) == {i \in DOMAIN events : events[i].req = r}

\* C34: every resource query handled on an open stream wrote exactly one
\* event, a resource_result when it succeeded and an error event when it
\* failed, and the session is still streaming after a failed one.
C34_OneEventPerResourceQuery ==
  (~clientGone /\ ~streamClosed) =>
    \A j \in DOMAIN returns :
      returns[j].via = "resource" =>
        /\ Cardinality(EventsOf(returns[j].req)) = 1
        /\ \A i \in EventsOf(returns[j].req) :
             events[i].event =
               IF returns[j].kind = "result" THEN "resource_result" ELSE "error"
        /\ (j = Len(returns) /\ returns[j].kind = "error_result") => sess = "streaming"

\* C35: with MCP_API_KEY unset or blank every request to the streaming
\* endpoint is answered 401 and opens no session, whatever X-MCP-Api-Key it
\* carries, a blank or missing one included.
C35_BlankSecretRejectsAll ==
  expectedKey = null =>
    /\ ~Active
    /\ events = <<>>
    /\ sess # "new" => (sess = "rejected" /\ status = 401)

\* A request without a key was answered 401 by a server without a secret.
C35_Witness ==
  /\ expectedKey = null
  /\ header = null
  /\ sess = "rejected"
  /\ status = 401

\* C36 (as claimed): a run started with a ceiling below 1 makes no model
\* round-trip and no tool call and returns the limit message with
\* iterations = 0 and an empty tool-call list.
C36_CeilingBelowOneReturnsLimit ==
  maxToolCalls < 1 =>
    /\ roundTrips = 0 /\ dispatched = 0
    /\ rpc = "done" => response = Returned(LimitMsg, <<>>, 0)

\* C36 (amended): a run started with a ceiling below 1 makes no model
\* round-trip and no tool call; when the tool list was fetched and the last
\* message is from the user it returns the limit message with
\* iterations = 0 and an empty tool-call list, otherwise it raises.
C36_CeilingBelowOneNoRoundTrip ==
  maxToolCalls < 1 =>
    /\ roundTrips = 0 /\ dispatched = 0 /\ modelLog = <<>> /\ toolCallRecords = <<>>
    /\ rpc \in {"idle", "listing", "done"}
    /\ rpc = "done" =>
         \/ /\ response = Returned(LimitMsg, <<>>, 0)
            /\ ~MalformedInput
            /\ Resolved # {}
         \/ /\ response.kind = "raised"
            /\ response.message \in {ConnectError(apiKey), "listTools failed"}
         \/ /\ response = Threw(LastMessageError)
            /\ MalformedInput

\* A run with ceiling 0 returned the limit message at once.
C36_Witness ==
  /\ maxToolCalls = 0
  /\ rpc = "done"
  /\ response = Returned(LimitMsg, <<>>, 0)
  /\ messages = <<"user">>

\* C37: the chat action answers a missing, non-string or blank message with
\* 400 without starting a run, a non-POST method with 405, turns an
\* exception of the run into a 500 with success = false, and lets no
\* exception escape.
C37_ChatActionAnswers ==
  \A i \in DOMAIN chatLog :
    LET q == chatLog[i]
    IN /\ ~q.response.escaped
       /\ q.response.status \in {200, 400, 405, 500}
       /\ q.method # "POST" => (q.response.status = 405 /\ ~q.response.started)
       /\ (q.method = "POST" /\ q.body # "unparsable"
             /\ q.message \in {"missing", "number", "empty", "blank"}) =>
            (q.response.status = 400 /\ ~q.response.success /\ ~q.response.started)
       /\ (q.response.started /\ q.outcome = "raised") =>
            (q.response.status = 500 /\ ~q.response.success)
       /\ q.response.status = 200 <=> q.response.success

\* A blank message was answered 400 and a raising run 500.
C37_Witness ==
  /\ Len(chatLog) = 2
  /\ chatLog[1].method = "POST" /\ chatLog[1].message = "blank"
  /\ chatLog[1].response.status = 400
  /\ chatLog[2].response.started /\ chatLog[2].outcome = "raised"
  /\ chatLog[2].response.status = 500

\* C38: refund_order answers success: true only for a paid order at most
\* 30 days old and an amount, if given, not above the order's total; in
\* every other case and on an internal error it answers {success: false,
\* error}, processes no refund, and it never raises.
C38_RefundOnlyWhenEligible ==
  \A i \in DOMAIN refundLog :
    LET q == refundLog[i]
    IN /\ ~q.result.raised
       /\ q.result.success <=> q.result.refunded
       /\ q.result.success <=>
            /\ q.fault = "none"
            /\ q.order.found
            /\ q.order.status = "paid"
            /\ q.order.age <= 30
            /\ (q.amount = null \/ q.amount <= q.order.total)
       /\ ~q.result.success => q.result.error # ""

\* An order 30 days old was refunded in full and one 31 days old was not.
C38_Witness ==
  /\ Len(refundLog) = 2
  /\ refundLog[1].order.age = 30 /\ refundLog[1].amount = refundLog[1].order.total
  /\ refundLog[1].result.success
  /\ refundLog[2].order.age = 31 /\ refundLog[2].order.status = "paid"
  /\ ~refundLog[2].result.success /\ ~refundLog[2].result.refunded

====
